---------------------------- MODULE Spec2Model ----------------------------
(***************************************************************************)
(* cnv_benchmark: dataset discovery, fuzzy matching, the DataLoader and    *)
(* FACSplus access classes and the CNV result splitter.                    *)
(*                                                                         *)
(* Text (file stems, tags, group names, queries) is a sequence of          *)
(* one-character strings, so that splitting, regular-expression matching   *)
(* and alignment are computed character by character.                      *)
(*                                                                         *)
(* Specifications:                                                         *)
(*   SpecDiscover  _get_data_available applied to bounded directory trees  *)
(*   SpecMatch     best_match applied to bounded queries and candidates    *)
(*   Spec          DataLoader instances made by fetch_data, and their      *)
(*                 accessors, over the class-level catalog                 *)
(*   SpecGuard     directly constructed DataLoader / FACSplus instances    *)
(*                 and every post-initialization accessor                  *)
(*   SpecSplit     cnv_result_split_by_cell applied to bounded tables      *)
(***************************************************************************)
EXTENDS Integers, Sequences, FiniteSets, TLC

VARIABLES
    root,                 \* discover: the configured data root (input)
    requires,             \* discover: the section's "requires" list (input)
    discovered,           \* discover: outcome of _get_data_available
    bm_in,                \* best_match: query, search_list, mult_match
    bm_out,               \* best_match: outcome
    dict_available_data,  \* DataLoader._dict_available_data (class attribute)
    inst,                 \* DataLoader instances, by slot
    facs,                 \* a FACSplus instance
    last,                 \* the last call on an instance and its outcome
    cnv_in,               \* cnv_result_split_by_cell: path and file content
    cnv_out,              \* cnv_result_split_by_cell: outcome
    dict_available_facs,  \* FACSplus._dict_available_data (class attribute)
    val_in,               \* _validate_data_dict: input_dict, req_keys_subdict, add_tag
    val_out,              \* _validate_data_dict: outcome
    adata,                \* run_py_infercnv: the annotated matrix after inference
    infer_out             \* run_py_infercnv: outcome

vars == <<root, requires, discovered, bm_in, bm_out, dict_available_data,
          inst, facs, last, cnv_in, cnv_out, dict_available_facs,
          val_in, val_out, adata, infer_out>>

---------------------------------------------------------------------------
(* Bounds *)

MaxFiles == 3     \* csv files in the scanned group directory
MaxStr == 2       \* length of an enumerated query / candidate
MaxCand == 2      \* length of an enumerated candidate list
MaxInst == 2      \* DataLoader instances alive at once
MaxRows == 4      \* bins (rows) of a CNV result table
MaxSamples == 2   \* samples of a nested dict given to _validate_data_dict

---------------------------------------------------------------------------
(* Python values *)

None == [kind |-> "None"]
Idle == [kind |-> "idle"]

Range(s) == {s[i] : i \in DOMAIN s}

\* list(dict.fromkeys(s)): first occurrences, in order
RECURSIVE Dedup(_)
Dedup(s) ==
    IF s = <<>> THEN <<>>
    ELSE LET r == Dedup(SubSeq(s, 1, Len(s) - 1))
         IN  IF s[Len(s)] \in Range(r) THEN r ELSE Append(r, s[Len(s)])

\* every ordering of a finite set without repetition
Perms(S) == {p \in [1..Cardinality(S) -> S] : Range(p) = S}

\* sequences over S of length 0..n
SeqsUpTo(S, n) == UNION {[1..k -> S] : k \in 0..n}

---------------------------------------------------------------------------
(* Character classes of the regular expression, dataloader_utility.py:81 *)

Letters == {"a","b","c","d","e","f","g","h","i","j","k","l","m","n","o","p",
            "q","r","s","t","u","v","w","x","y","z",
            "A","B","C","D","E","F","G","H","I","J","K","L","M","N","O","P",
            "Q","R","S","T","U","V","W","X","Y","Z"}

Digits == {"0","1","2","3","4","5","6","7","8","9"}

Sep == <<"_", "_">>

RCM == <<"R","C","M">>
GBC == <<"G","B","C">>

\* s[i..] starts with p
IsPrefixAt(p, s, i) ==
    /\ i + Len(p) - 1 <= Len(s)
    /\ \A k \in 1..Len(p) : s[i + k - 1] = p[k]

\* number of consecutive characters of class C in s from position i
RECURSIVE RunLen(_, _, _)
RunLen(s, i, C) ==
    IF i <= Len(s) /\ s[i] \in C THEN 1 + RunLen(s, i + 1, C) ELSE 0

\* position of the first "__" in s at or after i, 0 if none
RECURSIVE FindSep(_, _)
FindSep(s, i) ==
    IF i + 1 > Len(s) THEN 0
    ELSE IF s[i] = "_" /\ s[i + 1] = "_" THEN i
    ELSE FindSep(s, i + 1)

\* str.split(sep="__")[0]
SplitFirst(stem) ==
    LET p == FindSep(stem, 1)
    IN  IF p = 0 THEN stem ELSE SubSeq(stem, 1, p - 1)

\* the pattern with the assembly token read as [a-zA-Z0-9]+_[0-9]+
ReMatchLenAlnum(tags, data_type, item) ==
    LET i2 == Len(tags) + 3
        nl == RunLen(item, i2, Letters \cup Digits)
        i3 == i2 + nl
        nd == RunLen(item, i3 + 1, Digits)
        i4 == i3 + 1 + nd
    IN  IF /\ IsPrefixAt(tags \o Sep, item, 1)
           /\ nl >= 1
           /\ i3 <= Len(item) /\ item[i3] = "_"
           /\ nd >= 1
           /\ IsPrefixAt(Sep \o data_type, item, i4)
        THEN i4 + 1 + Len(data_type)
        ELSE 0

\* re.match(f"{tags}__[a-zA-Z]+_[0-9]+__{data_type}", item): the length of the
\* matched prefix of item, 0 when there is no match.  re.match anchors at the
\* start only.  tags and data_type are literal text here (no regex
\* metacharacters in the modelled names).  Both classes exclude "_", so the
\* greedy runs are the only candidates.
ReMatchLen(tags, data_type, item) ==
    LET i2 == Len(tags) + 3
        nl == RunLen(item, i2, Letters)
        i3 == i2 + nl
        nd == RunLen(item, i3 + 1, Digits)
        i4 == i3 + 1 + nd
    IN  IF /\ IsPrefixAt(tags \o Sep, item, 1)
           /\ nl >= 1
           /\ i3 <= Len(item) /\ item[i3] = "_"
           /\ nd >= 1
           /\ IsPrefixAt(Sep \o data_type, item, i4)
        THEN i4 + 1 + Len(data_type)
        ELSE 0

\* re.match(...) is not None
ReMatches(tags, data_type, item) == ReMatchLen(tags, data_type, item) > 0

\* list_match, line 82: re.match(...).group() of every key that matches
ListMatch(tags, data_type, keys) ==
    LET hit == SelectSeq(keys, LAMBDA item : ReMatches(tags, data_type, item))
    IN  [k \in 1..Len(hit) |-> SubSeq(hit[k], 1, ReMatchLen(tags, data_type, hit[k]))]

---------------------------------------------------------------------------
(* _get_data_available, dataloader_utility.py:53-91 *)

\* a pathlib.Path of a csv file: its directory (group) and stem
PathOf(g, stem) == [kind |-> "path", dir |-> g, stem |-> stem]

\* lines 71-88 for one group directory; keys are the stems of its *.csv files
\* in glob order (the keys of dict_available_genomic_files)
GroupScan(g, keys, requires_list) ==
    LET set_data_tags == {SplitFirst(k) : k \in Range(keys)}
        types == Range(requires_list)
        has(t, ty) == Len(ListMatch(t, ty, keys)) > 0
        first(t, ty) == ListMatch(t, ty, keys)[1]
        accepted == {t \in set_data_tags : \A ty \in types : has(t, ty)}
    IN  [keyerror |-> \E t \in set_data_tags, ty \in types :
                         has(t, ty) /\ first(t, ty) \notin Range(keys),
         accepted |-> accepted,
         files    |-> [t \in accepted |-> [ty \in types |-> PathOf(g, first(t, ty))]]]

\* the possible results of one call: an error, or the catalog under every
\* iteration order of set_data_tags (a Python set of str)
DiscoverOutcomes(rt, requires_list) ==
    IF ~rt.exists THEN {[kind |-> "ValueError", why |-> "path does not exist"]}
    ELSE IF DOMAIN rt.dirs = {} THEN {[kind |-> "ValueError", why |-> "no directories"]}
    ELSE LET scan(g) == GroupScan(g, rt.dirs[g], requires_list)
             kept == {g \in DOMAIN rt.dirs : scan(g).accepted # {}}
             orders == {o \in [kept -> UNION {Perms(scan(g).accepted) : g \in kept}] :
                           \A g \in kept : Range(o[g]) = scan(g).accepted}
         IN  IF \E g \in DOMAIN rt.dirs : scan(g).keyerror
             THEN {[kind |-> "KeyError", why |-> "matched text is not a file stem"]}
             ELSE {[kind |-> "ok",
                    catalog |-> [g \in kept |-> [keys |-> o[g], val |-> scan(g).files]]]
                   : o \in orders}

---------------------------------------------------------------------------
(* Inputs of SpecDiscover *)

Stem(tag, asm, ty) == tag \o Sep \o asm \o Sep \o ty

tag_a == <<"a">>
tag_b == <<"b">>
hg_1 == <<"h","g","_","1">>
hg19_1 == <<"h","g","1","9","_","1">>
zz_2 == <<"z","z","_","2">>
G1 == <<"G","1">>
G2 == <<"G","2">>

StemPool ==
    { Stem(tag_a, hg_1, RCM), Stem(tag_a, hg_1, GBC), Stem(tag_b, hg_1, RCM),
      Stem(tag_a, hg19_1, RCM), Stem(tag_a, hg19_1, GBC), Stem(tag_b, hg19_1, RCM),
      Stem(tag_a, hg_1, RCM \o <<"x">>), Stem(tag_a, zz_2, RCM),
      <<"r","e","a","d","m","e">> }

\* glob results: file names of one directory are distinct
GlobOrders(n) == {s \in SeqsUpTo(StemPool, n) : \A i, j \in DOMAIN s : s[i] = s[j] => i = j}

\* contents of the second group directory, when there is one
G2Dirs == { <<>>, <<Stem(tag_a, hg_1, GBC), Stem(tag_a, hg_1, RCM)>> }

\* directory trees whose first group holds up to n files
DirTrees(n) ==
    {<<>>} \cup {[g \in {G1} |-> d1] : d1 \in GlobOrders(n)}
           \cup {[g \in {G1, G2} |-> IF g = G1 THEN d1 ELSE d2] :
                     d1 \in GlobOrders(n), d2 \in G2Dirs}

RootInputs(n) ==
    {[exists |-> FALSE, dirs |-> <<>>]} \cup {[exists |-> TRUE, dirs |-> d] : d \in DirTrees(n)}

RequiresInputs == {<<RCM, GBC>>, <<GBC, RCM>>, <<RCM>>}

\* the variables of the other specifications, not in use
NoMatchCall == bm_in = Idle /\ bm_out = Idle
NoClasses == dict_available_data = Idle /\ inst = Idle /\ facs = Idle /\ last = Idle
NoSplitCall == cnv_in = Idle /\ cnv_out = Idle
NoFacsCatalog == dict_available_facs = Idle
NoValidateCall == val_in = Idle /\ val_out = Idle
NoInferCall == adata = Idle /\ infer_out = Idle
NoHelperCall == NoFacsCatalog /\ NoValidateCall /\ NoInferCall
NoDiscoverCall == root = Idle /\ requires = Idle /\ discovered = Idle

InitDiscover ==
    /\ root \in RootInputs(MaxFiles)
    /\ requires \in RequiresInputs
    /\ discovered = Idle
    /\ NoMatchCall /\ NoClasses /\ NoSplitCall /\ NoHelperCall

RunDiscover ==
    /\ discovered = Idle
    /\ discovered' \in DiscoverOutcomes(root, requires)
    /\ UNCHANGED <<root, requires, bm_in, bm_out, dict_available_data, inst, facs,
                   last, cnv_in, cnv_out, dict_available_facs, val_in, val_out,
                   adata, infer_out>>

NextDiscover == RunDiscover

SpecDiscover == InitDiscover /\ [][NextDiscover]_vars

---------------------------------------------------------------------------
(* Claims about _get_data_available (SpecDiscover) *)

\* stem is exactly <t>__<letters>_<digits>__<ty>, read off the text
IsNamed(stem, t, ty) ==
    \E nl \in 1..Len(stem), nd \in 1..Len(stem) :
        LET a == Len(t) + 3
        IN  /\ Len(stem) = Len(t) + 2 + nl + 1 + nd + 2 + Len(ty)
            /\ SubSeq(stem, 1, Len(t)) = t
            /\ SubSeq(stem, Len(t) + 1, Len(t) + 2) = Sep
            /\ \A k \in a..(a + nl - 1) : stem[k] \in Letters
            /\ stem[a + nl] = "_"
            /\ \A k \in (a + nl + 1)..(a + nl + nd) : stem[k] \in Digits
            /\ SubSeq(stem, a + nl + nd + 1, a + nl + nd + 2) = Sep
            /\ SubSeq(stem, a + nl + nd + 3, Len(stem)) = ty

TagPool == {tag_a, tag_b} \cup {SplitFirst(f) : f \in StemPool}

\* tags of group g for which every required type has a conforming file
Conforming(g) ==
    {t \in TagPool : \A ty \in Range(requires) :
                        \E f \in Range(root.dirs[g]) : IsNamed(f, t, ty)}

DiscoverRan == discovered # Idle /\ root.exists /\ DOMAIN root.dirs # {}

\* C1: for every root with group directories and every requires list, discover
\* returns a catalog that holds a tag under a group iff every required type
\* has a file <tag>__<letters>_<digits>__<type>.csv in that group, and holds a
\* group iff the group has at least one such tag.
C1_DiscoveryCorrect ==
    DiscoverRan =>
        /\ discovered.kind = "ok"
        /\ \A g \in DOMAIN root.dirs :
              /\ g \in DOMAIN discovered.catalog <=> Conforming(g) # {}
              /\ g \in DOMAIN discovered.catalog =>
                    Range(discovered.catalog[g].keys) = Conforming(g)

\* C20: whatever the CSV file names in the group directories of an existing
\* root, discover completes without an error, and every path stored for
\* (tag, type) is a file of that directory whose stem is exactly
\* <tag>__<letters>_<digits>__<type>; a file whose stem only starts that way
\* is not stored and makes no lookup fail.
C20_RobustDiscovery ==
    DiscoverRan =>
        /\ discovered.kind = "ok"
        /\ \A g \in DOMAIN discovered.catalog :
              \A t \in Range(discovered.catalog[g].keys) :
                 \A ty \in Range(requires) :
                    \E f \in Range(root.dirs[g]) :
                       /\ IsNamed(f, t, ty)
                       /\ discovered.catalog[g].val[t][ty] = PathOf(g, f)

ExampleDir(asm) == {Stem(tag_a, asm, RCM), Stem(tag_a, asm, GBC), Stem(tag_b, asm, RCM)}

IsExample(asm) ==
    /\ root.exists
    /\ DOMAIN root.dirs = {G1}
    /\ Range(root.dirs[G1]) = ExampleDir(asm)
    /\ requires = <<RCM, GBC>>

ExampleCatalog(asm) ==
    [g \in {G1} |->
        [keys |-> <<tag_a>>,
         val  |-> [t \in {tag_a} |-> [ty \in {RCM, GBC} |-> PathOf(G1, Stem(tag_a, asm, ty))]]]]

\* C2 as stated: with the files a__hg19_1__RCM, a__hg19_1__GBC, b__hg19_1__RCM
\* in G1 and requires = [RCM, GBC] the catalog is exactly {G1: {a: {RCM, GBC}}}.
C2_Hg19Accepted ==
    (discovered # Idle /\ IsExample(hg19_1)) =>
        discovered.kind = "ok" /\ discovered.catalog = ExampleCatalog(hg19_1)

\* C2 amended: the three files with a token of letters, underscore, digits
\* (hg_1) give exactly {G1: {a: {RCM, GBC}}}; with the token hg19_1, whose
\* digits come before the underscore, no file matches and the catalog is empty.
C2_LettersDigitsAccepted ==
    discovered # Idle =>
        /\ IsExample(hg_1) =>
              discovered.kind = "ok" /\ discovered.catalog = ExampleCatalog(hg_1)
        /\ IsExample(hg19_1) =>
              discovered.kind = "ok" /\ DOMAIN discovered.catalog = {}

C2_Witness ==
    /\ discovered # Idle
    /\ IsExample(hg_1)
    /\ discovered.kind = "ok"
    /\ tag_b \notin Range(discovered.catalog[G1].keys)
    /\ discovered.catalog[G1].val[tag_a][GBC] = PathOf(G1, Stem(tag_a, hg_1, GBC))

---------------------------------------------------------------------------
(* best_match, dataloader_utility.py:94-128 *)

\* Align.PairwiseAligner(match_score=1.0), mode "local"; the mismatch score
\* keeps the library default
match_score == 1
mismatch_score == 0
open_gap_score == -1
extend_gap_score == 0

Max2(x, y) == IF x >= y THEN x ELSE y
Max3(x, y, z) == Max2(x, Max2(y, z))

RECURSIVE MaxOfSeq(_)
MaxOfSeq(s) == IF Len(s) = 1 THEN s[1] ELSE Max2(s[1], MaxOfSeq(Tail(s)))

\* One row of the local affine-gap (Gotoh) recurrence for target character c.
\* A row holds columns 0..Len(query) at indices 1..Len(query)+1:
\*   M ends in an aligned pair, X in a gap in the query, Y in a gap in the target.
\* prev is the row above, acc the part of this row built so far.
RECURSIVE AlignRow(_, _, _, _)
AlignRow(c, query, prev, acc) ==
    LET j == Len(acc.M)
    IN  IF j > Len(query) THEN acc
        ELSE LET s == IF c = query[j] THEN match_score ELSE mismatch_score
                 m == Max2(0, Max3(prev.M[j], prev.X[j], prev.Y[j]) + s)
                 x == Max3(prev.M[j + 1] + open_gap_score,
                           prev.X[j + 1] + extend_gap_score,
                           prev.Y[j + 1] + open_gap_score)
                 y == Max3(acc.M[j] + open_gap_score,
                           acc.Y[j] + extend_gap_score,
                           acc.X[j] + open_gap_score)
             IN  AlignRow(c, query, prev,
                          [M |-> Append(acc.M, m), X |-> Append(acc.X, x),
                           Y |-> Append(acc.Y, y)])

\* column 0 of a row: nothing aligned yet, a gap there can only have been opened
RowStart == [M |-> <<0>>, X |-> <<open_gap_score>>, Y |-> <<open_gap_score>>]

Row0(query) ==
    [M |-> [j \in 1..(Len(query) + 1) |-> 0],
     X |-> [j \in 1..(Len(query) + 1) |-> open_gap_score],
     Y |-> [j \in 1..(Len(query) + 1) |-> open_gap_score]]

\* best cell over rows i..Len(target), given the row above and the best so far
RECURSIVE AlignFrom(_, _, _, _, _)
AlignFrom(target, query, i, prev, best) ==
    IF i > Len(target) THEN best
    ELSE LET row == AlignRow(target[i], query, prev, RowStart)
         IN  AlignFrom(target, query, i + 1, row, Max2(best, MaxOfSeq(row.M)))

\* aligner.score(target, query), line 117, for non-empty sequences
AlignScore(target, query) == AlignFrom(target, query, 1, Row0(query), 0)

\* list_scores, line 117
RECURSIVE ListScores(_, _)
ListScores(query, search_list) ==
    IF search_list = <<>> THEN <<>>
    ELSE <<AlignScore(Head(search_list), query)>> \o ListScores(query, Tail(search_list))

\* list.count(x) and list.index(x)
CountOf(s, x) == Cardinality({k \in DOMAIN s : s[k] = x})
IndexOf(s, x) == CHOOSE k \in DOMAIN s : s[k] = x /\ \A l \in DOMAIN s : s[l] = x => k <= l

ValueError(why) == [kind |-> "ValueError", why |-> why]
Ambiguous == ValueError("Match of query is too ambigious")
EmptyMax == ValueError("max() arg is an empty sequence")

\* lines 119-121 without the count check
SingleHitFirstMax(search_list, list_scores) ==
    [kind |-> "str", val |-> search_list[IndexOf(list_scores, MaxOfSeq(list_scores))]]

\* lines 119-121
SingleHit(search_list, list_scores) ==
    IF CountOf(list_scores, MaxOfSeq(list_scores)) > 1 THEN Ambiguous
    ELSE [kind |-> "str", val |-> search_list[IndexOf(list_scores, MaxOfSeq(list_scores))]]

\* lines 123-127 with the hits passed through set()
MultiHitUnique(search_list, list_scores) ==
    IF MaxOfSeq(list_scores) > 0
    THEN LET scores_idx == SelectSeq([k \in DOMAIN list_scores |-> k],
                                     LAMBDA k : list_scores[k] = MaxOfSeq(list_scores))
         IN  [kind |-> "list",
              val |-> Dedup([n \in DOMAIN scores_idx |-> search_list[scores_idx[n]]])]
    ELSE None

\* lines 123-127: scores_idx, then the candidates at those indices
MultiHit(search_list, list_scores) ==
    IF MaxOfSeq(list_scores) > 0
    THEN LET scores_idx == SelectSeq([k \in DOMAIN list_scores |-> k],
                                     LAMBDA k : list_scores[k] = MaxOfSeq(list_scores))
         IN  [kind |-> "list", val |-> [n \in DOMAIN scores_idx |-> search_list[scores_idx[n]]]]
    ELSE None

\* max() of an empty list raises before either branch decides
BestMatch(query, search_list, mult_match) ==
    IF search_list = <<>> THEN EmptyMax
    ELSE IF ~mult_match THEN SingleHit(search_list, ListScores(query, search_list))
    ELSE MultiHit(search_list, ListScores(query, search_list))

---------------------------------------------------------------------------
(* Inputs of SpecMatch *)

Text(n) == UNION {[1..k -> {"a", "b"}] : k \in 1..n}

wu == <<"w","u">>
group == <<"g","r","o","u","p">>
wu_group == wu \o <<"_">> \o group
biaan_group == <<"b","i","a","a","n","_">> \o group
ab_group == <<"a","b","_">> \o group
cd_group == <<"c","d","_">> \o group
zzz == <<"z","z","z">>
abc == <<"a","b","c">>
def == <<"d","e","f">>
abcd == <<"a","b","c","d">>
abxxcd == <<"a","b","x","x","c","d">>

NamedCalls ==
    { [query |-> wu, search_list |-> <<wu_group, biaan_group>>],
      [query |-> group, search_list |-> <<ab_group, cd_group>>],
      [query |-> zzz, search_list |-> <<abc, def>>],
      [query |-> abcd, search_list |-> <<abxxcd, abc>>],
      [query |-> abcd, search_list |-> <<abxxcd, <<"a","b">> >>] }

\* the named calls, and every call with texts up to length n and up to k candidates
MatchCalls(n, k) ==
    {[query |-> c.query, search_list |-> c.search_list, mult_match |-> m] :
        c \in NamedCalls \cup [query : Text(n),
                               search_list : SeqsUpTo(Text(n), k)],
        m \in BOOLEAN}

InitMatch ==
    /\ bm_in \in MatchCalls(MaxStr, MaxCand)
    /\ bm_out = Idle
    /\ NoDiscoverCall /\ NoClasses /\ NoSplitCall /\ NoHelperCall

CallBestMatch ==
    /\ bm_out = Idle
    /\ bm_out' = BestMatch(bm_in.query, bm_in.search_list, bm_in.mult_match)
    /\ UNCHANGED <<root, requires, discovered, bm_in, dict_available_data, inst, facs,
                   last, cnv_in, cnv_out, dict_available_facs, val_in, val_out,
                   adata, infer_out>>

NextMatch == CallBestMatch

SpecMatch == InitMatch /\ [][NextMatch]_vars

---------------------------------------------------------------------------
(* Claims about best_match (SpecMatch) *)

\* the scores of the candidates of the call, in candidate order
Scores == ListScores(bm_in.query, bm_in.search_list)

\* the positions that attain the maximum of the scores sc
TopAt(sc) == {k \in DOMAIN sc : \A l \in DOMAIN sc : sc[l] <= sc[k]}

Scored == bm_out # Idle /\ bm_in.search_list # <<>>

\* C8: single-match mode over a non-empty candidate list: if two or more
\* candidates attain the maximum local-alignment score the call raises the
\* ambiguous-match error, otherwise it returns the one candidate whose score
\* is strictly highest; "wu" over [wu_group, biaan_group] returns wu_group and
\* "group" over [ab_group, cd_group] raises.
C8_SingleMatch ==
    (Scored /\ ~bm_in.mult_match) =>
        \A sc \in {Scores} :
            /\ Cardinality(TopAt(sc)) >= 2 => bm_out = Ambiguous
            /\ Cardinality(TopAt(sc)) < 2 =>
                  /\ bm_out.kind = "str"
                  /\ \E k \in DOMAIN sc :
                        /\ bm_out.val = bm_in.search_list[k]
                        /\ \A l \in DOMAIN sc : l # k => sc[l] < sc[k]
            /\ (bm_in.query = wu /\ bm_in.search_list = <<wu_group, biaan_group>>) =>
                  bm_out = [kind |-> "str", val |-> wu_group]
            /\ (bm_in.query = group /\ bm_in.search_list = <<ab_group, cd_group>>) =>
                  bm_out = Ambiguous

C8_Witness ==
    /\ Scored /\ ~bm_in.mult_match
    /\ bm_in.query = <<"a", "b">>
    /\ bm_in.search_list = <<<<"b", "b">>, <<"a", "b">>>>
    /\ bm_out = [kind |-> "str", val |-> <<"a", "b">>]

NoRepeat(s) == \A i, j \in DOMAIN s : s[i] = s[j] => i = j

\* C9 as stated: multiple-match mode returns None when the maximum score is 0
\* and otherwise the candidates attaining the maximum with duplicates removed,
\* so that no candidate appears twice in the result.
C9_MultiNoDuplicates ==
    (Scored /\ bm_in.mult_match) =>
        \A sc \in {Scores} :
            /\ (\A k \in TopAt(sc) : sc[k] = 0) => bm_out = None
            /\ (\E k \in TopAt(sc) : sc[k] > 0) =>
                  /\ bm_out.kind = "list"
                  /\ Range(bm_out.val) = {bm_in.search_list[k] : k \in TopAt(sc)}
                  /\ NoRepeat(bm_out.val)

\* C9 amended: multiple-match mode over a non-empty candidate list returns None
\* when the maximum score is 0 and otherwise the list of the candidates that
\* attain the maximum, in candidate order, one entry per position: a string
\* listed twice among the candidates appears twice in the result.
C9_MultiAllPositions ==
    (Scored /\ bm_in.mult_match) =>
        \A sc \in {Scores} :
            /\ (\A k \in TopAt(sc) : sc[k] = 0) => bm_out = None
            /\ (\E k \in TopAt(sc) : sc[k] > 0) =>
                  /\ bm_out.kind = "list"
                  /\ Len(bm_out.val) = Cardinality(TopAt(sc))
                  /\ \E pos \in [DOMAIN bm_out.val -> TopAt(sc)] :
                        /\ \A m, n \in DOMAIN pos : m < n => pos[m] < pos[n]
                        /\ \A n \in DOMAIN pos : bm_out.val[n] = bm_in.search_list[pos[n]]

C9_Witness ==
    /\ Scored /\ bm_in.mult_match
    /\ bm_in.query = <<"a">>
    /\ bm_in.search_list = <<<<"a">>, <<"a">>>>
    /\ bm_out = [kind |-> "list", val |-> <<<<"a">>, <<"a">>>>]

---------------------------------------------------------------------------
(* Foundation and DataLoader, _classes.py:18-81 and dataloader.py:29-227 *)

\* the directory tree the configured data_loc points at
hg_19 == <<"h","g","_","1","9">>
hg_38 == <<"h","g","_","3","8">>

DataRoot ==
    [exists |-> TRUE,
     dirs |-> [g \in {wu_group, biaan_group} |->
                 IF g = wu_group
                 THEN <<Stem(tag_a, hg_19, GBC), Stem(tag_a, hg_19, RCM),
                        Stem(tag_b, hg_19, GBC), Stem(tag_b, hg_19, RCM)>>
                 ELSE <<Stem(tag_a, hg_38, GBC), Stem(tag_a, hg_38, RCM)>>]]

\* dict_data_section["requires"], dataloader.py:31
DataRequires == <<GBC, RCM>>

\* the values _dict_available_data may get at class definition, line 48
DataLoaderCatalogs ==
    {o.catalog : o \in {d \in DiscoverOutcomes(DataRoot, DataRequires) : d.kind = "ok"}}

NoInstance == [kind |-> "free"]
Str(v) == [kind |-> "str", val |-> v]

\* a dict of tag -> inner dict.  outer = "catalog": the group's own dict of the
\* catalog; outer = "own": a new dict.  Either way the values are the inner
\* dicts of catalog group `group`, shared by reference.
Selection(outer, g, keys) == [kind |-> "dict", outer |-> outer, group |-> g, keys |-> keys]

\* DataLoader.__init__, lines 50-62
NewDataLoader(via, fetched_group_dict_data, selected_group) ==
    [kind |-> "DataLoader", via |-> via,
     attrs |-> [class_obj |-> Str("DataLoader"),
                error_text |-> Str("Use Dataloader.fetch_data(group_data: str) first."),
                fetched_group_dict_data |-> fetched_group_dict_data,
                selected_group |-> selected_group]]

\* _check_loaded looking at the data attributes only, not at selected_group
\* or tag
CheckLoadedDataOnly(obj) ==
    \E k \in DOMAIN obj.attrs \ {"selected_group", "tag"} : obj.attrs[k] = None

\* Foundation._check_loaded, _classes.py:79-81: TRUE when it raises
CheckLoaded(obj) ==
    \E k \in DOMAIN obj.attrs : obj.attrs[k] = None

Uninitialized(obj) == ValueError(obj.attrs.error_text.val)

Call(op, target, args, out, ret) ==
    [kind |-> "call", op |-> op, target |-> target, args |-> args, out |-> out, ret |-> ret]

Ok == [kind |-> "ok"]
NoValue == [kind |-> "no value"]

\* the tags of subset_filter kept without looking them up in the group
MatchSubsetUnfiltered(group_keys, subset_filter) == Dedup(subset_filter)

\* keys of dict_match, line 146
MatchSubset(group_keys, subset_filter) ==
    Dedup(SelectSeq(subset_filter, LAMBDA tag : tag \in Range(group_keys)))

\* list(DataLoader._dict_available_data.keys()), line 131
ListGroups(cat) == CHOOSE p \in Perms(DOMAIN cat) : TRUE

\* fetch_data, lines 135-151, given the result `hit` of best_match at line
\* 132: the error raised, or the instance returned
FetchResult(cat, hit, subset_filter) ==
    IF hit.kind # "str" THEN [out |-> hit, obj |-> NoInstance]
    ELSE LET g == hit.val
             dict_subset_group == cat[g]
             as_list == IF subset_filter.kind = "str" THEN <<subset_filter.val>>
                        ELSE subset_filter.val
             keys == MatchSubset(dict_subset_group.keys, as_list)
         IN  IF subset_filter.kind \notin {"str", "list", "None"}
             THEN [out |-> ValueError("Attribute subset_filter must be the following datatypes: (str, list)"),
                   obj |-> NoInstance]
             ELSE IF subset_filter = None
             THEN [out |-> Ok,
                   obj |-> NewDataLoader("fetch_data",
                               Selection("catalog", g, dict_subset_group.keys), Str(g))]
             ELSE IF Len(keys) = 0
             THEN [out |-> ValueError("There are no matches for given subset_filter"),
                   obj |-> NoInstance]
             ELSE [out |-> Ok,
                   obj |-> NewDataLoader("fetch_data", Selection("own", g, keys), Str(g))]

\* what a selection holds: tag -> type -> path or table
Content(cat, sel) == [t \in Range(sel.keys) |-> cat[sel.group].val[t]]

Table(p) == [kind |-> "table", dir |-> p.dir, stem |-> p.stem]

\* pd.read_csv(str(x)), lines 167-168: x is a path of the data root, or a
\* table, whose str() names no file
CanRead(x) == x.kind = "path"

\* the loop of get_as_dataframe, lines 166-168, from key number n on: the
\* catalog as left by the loop and whether pd.read_csv raised
RECURSIVE ToDataframes(_, _, _)
ToDataframes(cat, sel, n) ==
    IF n > Len(sel.keys) THEN [cat |-> cat, raised |-> FALSE]
    ELSE LET g == sel.group
             key == sel.keys[n]
             inner == cat[g].val[key]
         IN  IF ~CanRead(inner[GBC]) THEN [cat |-> cat, raised |-> TRUE]
             ELSE LET c1 == [cat EXCEPT ![g].val[key][GBC] = Table(inner[GBC])]
                  IN  IF ~CanRead(inner[RCM]) THEN [cat |-> c1, raised |-> TRUE]
                      ELSE ToDataframes([c1 EXCEPT ![g].val[key][RCM] = Table(inner[RCM])],
                                        sel, n + 1)

FreeSlots == {i \in 1..MaxInst : inst[i] = NoInstance}
Live == {i \in 1..MaxInst : inst[i] # NoInstance}

FetchQueries == {wu, <<"b","i","a","a","n">>, group}

\* best_match(group_data, list_groups), line 132, tabulated for the queries
\* above and the group lists the data root gives
FetchHits ==
    [q \in FetchQueries |->
        [gs \in Perms(DOMAIN DataRoot.dirs) |-> BestMatch(q, gs, FALSE)]]

tag_c == <<"c">>

SubsetFilters ==
    {None, Str(tag_a), Str(tag_b), Str(tag_c), [kind |-> "int", val |-> 5]}
    \cup {[kind |-> "list", val |-> l] :
            l \in {<<>>, <<tag_a>>, <<tag_b, tag_a>>, <<tag_a, tag_c>>, <<tag_c>>,
                   <<tag_a, tag_a>>}}

NotUsedByClasses == NoDiscoverCall /\ NoMatchCall /\ NoSplitCall /\ NoValidateCall /\ NoInferCall

UnchangedOthers ==
    UNCHANGED <<root, requires, discovered, bm_in, bm_out, cnv_in, cnv_out,
                val_in, val_out, adata, infer_out>>

\* DataLoader.fetch_data(group_data, subset_filter), lines 131-151, for every
\* subset_filter of SubsetFilters; the instance, if one is returned, is kept
\* in the lowest free slot
FetchData(group_data) ==
    /\ FreeSlots # {}
    /\ \E hit \in {FetchHits[group_data][ListGroups(dict_available_data)]},
          subset_filter \in SubsetFilters :
          LET i == CHOOSE k \in FreeSlots : \A l \in FreeSlots : k <= l
              r == FetchResult(dict_available_data, hit, subset_filter)
          IN  /\ inst' = [inst EXCEPT ![i] = r.obj]
              /\ last' = Call("fetch_data", i,
                              [group_data |-> group_data, subset_filter |-> subset_filter],
                              r.out, NoValue)
    /\ UNCHANGED <<dict_available_data, dict_available_facs, facs>>
    /\ UnchangedOthers

\* DataLoader.get_as_dataframe, lines 165-169
GetAsDataframe(i) ==
    /\ i \in Live
    /\ IF CheckLoaded(inst[i])
       THEN /\ last' = Call("get_as_dataframe", i, <<>>, Uninitialized(inst[i]), NoValue)
            /\ UNCHANGED dict_available_data
       ELSE LET sel == inst[i].attrs.fetched_group_dict_data
                r == ToDataframes(dict_available_data, sel, 1)
            IN  /\ dict_available_data' = r.cat
                /\ last' = IF r.raised
                           THEN Call("get_as_dataframe", i, <<>>,
                                     [kind |-> "FileNotFoundError", why |-> "str(DataFrame)"],
                                     NoValue)
                           ELSE Call("get_as_dataframe", i, <<>>, Ok, Content(r.cat, sel))
    /\ UNCHANGED <<dict_available_facs, inst, facs>>
    /\ UnchangedOthers

\* DataLoader.get_as_path, lines 181-182
GetAsPath(i) ==
    /\ i \in Live
    /\ last' = IF CheckLoaded(inst[i])
               THEN Call("get_as_path", i, <<>>, Uninitialized(inst[i]), NoValue)
               ELSE Call("get_as_path", i, <<>>, Ok,
                         Content(dict_available_data, inst[i].attrs.fetched_group_dict_data))
    /\ UNCHANGED <<dict_available_data, dict_available_facs, inst, facs>>
    /\ UnchangedOthers

\* DataLoader.get_group_info, lines 200-206; the summary file of the group may
\* or may not exist
GetGroupInfo(i) ==
    /\ i \in Live
    /\ IF CheckLoaded(inst[i])
       THEN last' = Call("get_group_info", i, <<>>, Uninitialized(inst[i]), NoValue)
       ELSE \E ret \in {[kind |-> "DataFrame"], None} :
                last' = Call("get_group_info", i, <<>>, Ok, ret)
    /\ UNCHANGED <<dict_available_data, dict_available_facs, inst, facs>>
    /\ UnchangedOthers

\* DataLoader.get_data_summary, lines 218-227; the availableDatasets file may
\* or may not exist, and may or may not have a column of a selected dataset
GetDataSummary(i) ==
    /\ i \in Live
    /\ IF CheckLoaded(inst[i])
       THEN last' = Call("get_data_summary", i, <<>>, Uninitialized(inst[i]), NoValue)
       ELSE \E ret \in {[kind |-> "DataFrame"], None} :
                last' = Call("get_data_summary", i, <<>>, Ok, ret)
    /\ UNCHANGED <<dict_available_data, dict_available_facs, inst, facs>>
    /\ UnchangedOthers

Init ==
    /\ dict_available_data \in DataLoaderCatalogs
    /\ inst = [i \in 1..MaxInst |-> NoInstance]
    /\ facs = NoInstance
    /\ last = Idle
    /\ NoFacsCatalog
    /\ NotUsedByClasses

Next ==
    \/ \E q \in FetchQueries : FetchData(q)
    \/ \E i \in 1..MaxInst : GetAsDataframe(i)
    \/ \E i \in 1..MaxInst : GetAsPath(i)
    \/ \E i \in 1..MaxInst : GetGroupInfo(i)
    \/ \E i \in 1..MaxInst : GetDataSummary(i)

Spec == Init /\ [][Next]_vars

---------------------------------------------------------------------------
(* FACSplus, dataloader.py:287-311 and 398-496 *)

\* a flat dict of key -> path, keys in insertion order
FlatDict(keys, val) == [kind |-> "dict", keys |-> keys, val |-> val]

\* FACSplus.__init__, lines 291-309
NewFACSplus(via, mult_rcm, mult_gbc, facs_rcm, assembly_genome, tag) ==
    [kind |-> "FACSplus", via |-> via,
     attrs |-> [class_obj |-> Str("FACSplus"),
                error_text |-> Str("Use FACSplus.fetch_matching_data(group_data: str) first."),
                mult_rcm |-> mult_rcm,
                mult_gbc |-> mult_gbc,
                facs_rcm |-> facs_rcm,
                assembly_genome |-> assembly_genome,
                tag |-> tag]]

UpperCase == <<"A","B","C","D","E","F","G","H","I","J","K","L","M","N","O","P",
               "Q","R","S","T","U","V","W","X","Y","Z">>
LowerCase == <<"a","b","c","d","e","f","g","h","i","j","k","l","m","n","o","p",
               "q","r","s","t","u","v","w","x","y","z">>

\* str.lower()
Lower(s) ==
    [k \in DOMAIN s |->
        IF s[k] \in Range(UpperCase)
        THEN LowerCase[CHOOSE n \in DOMAIN UpperCase : UpperCase[n] = s[k]]
        ELSE s[k]]

\* str.split(sep=" ")
RECURSIVE SplitSpace(_)
SplitSpace(s) ==
    IF \A k \in DOMAIN s : s[k] # " " THEN <<s>>
    ELSE LET p == CHOOSE k \in DOMAIN s : s[k] = " " /\ \A l \in 1..(k - 1) : s[l] # " "
         IN  <<SubSeq(s, 1, p - 1)>> \o SplitSpace(SubSeq(s, p + 1, Len(s)))

\* get_best_match_set, lines 454-460, for a non-empty search_list
BestMatchSet(query_list, search_list) ==
    UNION {LET matches == BestMatch(q, search_list, TRUE)
           IN  IF matches = None THEN {} ELSE Range(matches.val) : q \in Range(query_list)}

AttributeError == [kind |-> "AttributeError", why |-> "'NoneType' object has no attribute 'lower'"]
KeyError == [kind |-> "KeyError", why |-> "key of mult_rcm missing in mult_gbc"]

\* dataloader_extend_facs_hybrid after the guard, lines 446-496: the error it
\* ends with.  Line 484 raises for every value of is_facs_percent: a number
\* is not None, and None is no number.
ExtendOutcome(obj, query_mult_data, query_facs_data, is_facs_percent) ==
    IF query_mult_data = None \/ query_facs_data = None THEN AttributeError
    ELSE LET a == obj.attrs
             dict_key_mult == Dedup([k \in DOMAIN a.mult_rcm.keys |-> Lower(a.mult_rcm.keys[k])])
             dict_key_facs == Dedup([k \in DOMAIN a.facs_rcm.keys |-> Lower(a.facs_rcm.keys[k])])
             keys_mult == BestMatchSet(SplitSpace(Lower(query_mult_data.val)), dict_key_mult)
             \* dict_key_mult[key]: the last key of mult_rcm that lowers to key
             true_mult_keys ==
                 {a.mult_rcm.keys[CHOOSE n \in DOMAIN a.mult_rcm.keys :
                                     /\ Lower(a.mult_rcm.keys[n]) = key
                                     /\ \A l \in DOMAIN a.mult_rcm.keys :
                                           Lower(a.mult_rcm.keys[l]) = key => l <= n]
                  : key \in keys_mult}
         IN  IF dict_key_mult = <<>> THEN EmptyMax
             ELSE IF \E k \in true_mult_keys : k \notin Range(a.mult_gbc.keys) THEN KeyError
             ELSE IF dict_key_facs = <<>> THEN EmptyMax
             ELSE ValueError("Variable 'is_facs_percent' must be of the following type: int, float, None!")

\* FACSplus.get_facs_paths / get_mult_rcm / get_mult_gbc, lines 398-411; the
\* FACSplus instance is target 0
FacsAttrCall(op, attr) ==
    IF CheckLoaded(facs)
    THEN Call(op, 0, <<>>, Uninitialized(facs), NoValue)
    ELSE Call(op, 0, <<>>, Ok, facs.attrs[attr])

GetFacsPaths ==
    /\ facs # NoInstance
    /\ last' = FacsAttrCall("get_facs_paths", "facs_rcm")
    /\ UNCHANGED <<dict_available_data, dict_available_facs, inst, facs>>
    /\ UnchangedOthers

GetMultRcm ==
    /\ facs # NoInstance
    /\ last' = FacsAttrCall("get_mult_rcm", "mult_rcm")
    /\ UNCHANGED <<dict_available_data, dict_available_facs, inst, facs>>
    /\ UnchangedOthers

GetMultGbc ==
    /\ facs # NoInstance
    /\ last' = FacsAttrCall("get_mult_gbc", "mult_gbc")
    /\ UNCHANGED <<dict_available_data, dict_available_facs, inst, facs>>
    /\ UnchangedOthers

\* FACSplus.dataloader_extend_facs_hybrid, lines 443-496
ExtendFacsHybrid(dataset_name, query_mult_data, query_facs_data, is_facs_percent) ==
    /\ facs # NoInstance
    /\ last' = Call("dataloader_extend_facs_hybrid", 0,
                    [dataset_name |-> dataset_name, query_mult_data |-> query_mult_data,
                     query_facs_data |-> query_facs_data, is_facs_percent |-> is_facs_percent],
                    IF CheckLoaded(facs) THEN Uninitialized(facs)
                    ELSE ExtendOutcome(facs, query_mult_data, query_facs_data, is_facs_percent),
                    NoValue)
    /\ UNCHANGED <<dict_available_data, dict_available_facs, inst, facs>>
    /\ UnchangedOthers

---------------------------------------------------------------------------
(* Directly constructed instances (SpecGuard) *)

mult_data == <<"m","u","l","t","_","d","a","t","a">>

\* constructor arguments: each may be left out (None)
RawSelections(cat) == {None} \cup {Selection("catalog", g, cat[g].keys) : g \in DOMAIN cat}
RawGroups(cat) == {None} \cup {Str(g) : g \in DOMAIN cat}

KeyMult == tag_a \o Sep \o mult_data
KeyOther == tag_b \o Sep \o mult_data
KeyFacs == tag_b \o Sep \o G1

RawMultRcm ==
    {None, FlatDict(<<KeyMult>>, [k \in {KeyMult} |-> PathOf(wu_group, Stem(tag_a, hg_19, RCM))])}
RawMultGbc ==
    {None, FlatDict(<<KeyMult>>, [k \in {KeyMult} |-> PathOf(wu_group, Stem(tag_a, hg_19, GBC))]),
           FlatDict(<<KeyOther>>, [k \in {KeyOther} |-> PathOf(wu_group, Stem(tag_b, hg_19, GBC))])}
RawFacsRcm ==
    {None, FlatDict(<<>>, <<>>),
           FlatDict(<<KeyFacs>>, [k \in {KeyFacs} |-> PathOf(G1, Stem(tag_b, hg_19, RCM))])}

RawFACSplus ==
    {NewFACSplus("__init__", mr, mg, fr, ag, tg) :
        mr \in RawMultRcm, mg \in RawMultGbc, fr \in RawFacsRcm,
        ag \in {None, Str(hg_19)}, tg \in {None, Str(mult_data)}}

HybridQueries == {None, Str(<<"a">>), Str(<<"B", " ", "a">>)}
FacsPercents == {None, [kind |-> "number", val |-> 0], [kind |-> "number", val |-> 1]}

InitGuard ==
    /\ dict_available_data \in DataLoaderCatalogs
    /\ \/ /\ \E sel \in RawSelections(dict_available_data), g \in RawGroups(dict_available_data) :
                inst = [i \in 1..MaxInst |->
                          IF i = 1 THEN NewDataLoader("__init__", sel, g) ELSE NoInstance]
          /\ facs = NoInstance
       \/ /\ inst = [i \in 1..MaxInst |-> NoInstance]
          /\ facs \in RawFACSplus
    /\ last = Idle
    /\ NoFacsCatalog
    /\ NotUsedByClasses

NextGuard ==
    \/ \E i \in 1..MaxInst : GetAsDataframe(i)
    \/ \E i \in 1..MaxInst : GetAsPath(i)
    \/ \E i \in 1..MaxInst : GetGroupInfo(i)
    \/ \E i \in 1..MaxInst : GetDataSummary(i)
    \/ GetFacsPaths
    \/ GetMultRcm
    \/ GetMultGbc
    \/ \E qm \in HybridQueries, qf \in HybridQueries, pct \in FacsPercents :
          ExtendFacsHybrid(Str(<<"h">>), qm, qf, pct)

SpecGuard == InitGuard /\ [][NextGuard]_vars

---------------------------------------------------------------------------
(* _validate_data_dict, dataloader.py:240-284 *)

\* str.split("__")[1]: the text between the first and the second "__";
\* None stands for the IndexError of a stem without "__"
SplitSecond(stem) ==
    LET p == FindSep(stem, 1)
        q == IF p = 0 THEN 0 ELSE FindSep(stem, p + 2)
    IN  IF p = 0 THEN None
        ELSE IF q = 0 THEN Str(SubSeq(stem, p + 2, Len(stem)))
        ELSE Str(SubSeq(stem, p + 2, q - 1))

\* dict.update({k: v}): a known key keeps its place, a new one goes last
DictUpdate(d, k, v) ==
    IF k \in Range(d.keys)
    THEN FlatDict(d.keys, [x \in Range(d.keys) |-> IF x = k THEN v ELSE d.val[x]])
    ELSE FlatDict(Append(d.keys, k), [x \in Range(d.keys) \cup {k} |-> IF x = k THEN v ELSE d.val[x]])

EmptyDict == FlatDict(<<>>, <<>>)

IsDict(subdict) == subdict.kind = "dict"

TypeError(why) == [kind |-> "TypeError", why |-> why]
IndexError == [kind |-> "IndexError", why |-> "list index out of range"]
Inconsistent == ValueError("Genomic Assemblies for RCM and GBC are inconsistent")

\* lines 270-273 for one sample: the list of assembly tokens, or the error
\* raised on the way.  str(*req_keys_subdict) of line 272 is itself a
\* TypeError unless there is exactly one required key.
RECURSIVE AssemblyVerify(_, _, _)
AssemblyVerify(subdict, req_keys_subdict, n) ==
    IF n > Len(req_keys_subdict) THEN [kind |-> "ok", list |-> <<>>]
    ELSE LET req_key == req_keys_subdict[n]
         IN  IF req_key \notin Range(subdict.keys)
             THEN IF Len(req_keys_subdict) = 1
                  THEN ValueError("required key must be in sample dict")
                  ELSE TypeError("str() takes the required keys as encoding arguments")
             ELSE IF subdict.val[req_key].kind # "path"
             THEN TypeError("expected str, bytes or os.PathLike object")
             ELSE IF SplitSecond(subdict.val[req_key].stem) = None THEN IndexError
             ELSE LET rest == AssemblyVerify(subdict, req_keys_subdict, n + 1)
                  IN  IF rest.kind # "ok" THEN rest
                      ELSE [kind |-> "ok",
                            list |-> <<SplitSecond(subdict.val[req_key].stem).val>> \o rest.list]

\* lines 278-279 / 282-283: every required type's mapping gets the sample
RECURSIVE AddSample(_, _, _, _, _)
AddSample(dict_validated, subdict, req_keys_subdict, key, n) ==
    IF n > Len(req_keys_subdict) THEN dict_validated
    ELSE LET req_key == req_keys_subdict[n]
         IN  AddSample([dict_validated EXCEPT
                           ![req_key] = DictUpdate(@, key, subdict.val[req_key])],
                       subdict, req_keys_subdict, key, n + 1)

\* the pinning of lines 276-283 left out: every consistent sample is kept
RECURSIVE ValidateFromNoPin(_, _, _, _, _, _)
ValidateFromNoPin(input_dict, req_keys_subdict, add_tag, n, dict_validated, set_genome) ==
    IF n > Len(input_dict.keys)
    THEN [kind |-> "ok", dict_validated |-> dict_validated, set_genome |-> set_genome]
    ELSE LET sample == input_dict.keys[n]
             subdict == input_dict.val[sample]
         IN  IF ~IsDict(subdict) THEN ValueError("Value of dataloader_dict must be of type dict")
             ELSE LET verify == AssemblyVerify(subdict, req_keys_subdict, 1)
                  IN  IF verify.kind # "ok" THEN verify
                      ELSE IF Cardinality(Range(verify.list)) > 1 THEN Inconsistent
                      ELSE ValidateFromNoPin(input_dict, req_keys_subdict, add_tag, n + 1,
                                             AddSample(dict_validated, subdict, req_keys_subdict,
                                                       sample \o add_tag, 1),
                                             IF set_genome = None THEN Str(verify.list[1])
                                             ELSE set_genome)

\* the consistency check of lines 274-275 made only while no assembly is pinned
RECURSIVE ValidateFromFirstOnly(_, _, _, _, _, _)
ValidateFromFirstOnly(input_dict, req_keys_subdict, add_tag, n, dict_validated, set_genome) ==
    IF n > Len(input_dict.keys)
    THEN [kind |-> "ok", dict_validated |-> dict_validated, set_genome |-> set_genome]
    ELSE LET sample == input_dict.keys[n]
             subdict == input_dict.val[sample]
         IN  IF ~IsDict(subdict) THEN ValueError("Value of dataloader_dict must be of type dict")
             ELSE LET verify == AssemblyVerify(subdict, req_keys_subdict, 1)
                  IN  IF verify.kind # "ok" THEN verify
                      ELSE IF set_genome = None /\ Cardinality(Range(verify.list)) > 1
                      THEN Inconsistent
                      ELSE IF set_genome = None \/ set_genome = Str(verify.list[1])
                      THEN ValidateFromFirstOnly(input_dict, req_keys_subdict, add_tag, n + 1,
                                                 AddSample(dict_validated, subdict,
                                                           req_keys_subdict, sample \o add_tag, 1),
                                                 Str(verify.list[1]))
                      ELSE ValidateFromFirstOnly(input_dict, req_keys_subdict, add_tag, n + 1,
                                                 dict_validated, set_genome)

\* the loop of lines 266-283 from sample number n on
RECURSIVE ValidateFrom(_, _, _, _, _, _)
ValidateFrom(input_dict, req_keys_subdict, add_tag, n, dict_validated, set_genome) ==
    IF n > Len(input_dict.keys)
    THEN [kind |-> "ok", dict_validated |-> dict_validated, set_genome |-> set_genome]
    ELSE LET sample == input_dict.keys[n]
             subdict == input_dict.val[sample]
         IN  IF ~IsDict(subdict) THEN ValueError("Value of dataloader_dict must be of type dict")
             ELSE LET verify == AssemblyVerify(subdict, req_keys_subdict, 1)
                  IN  IF verify.kind # "ok" THEN verify
                      ELSE IF Cardinality(Range(verify.list)) > 1 THEN Inconsistent
                      ELSE IF set_genome = None
                      THEN ValidateFrom(input_dict, req_keys_subdict, add_tag, n + 1,
                                        AddSample(dict_validated, subdict, req_keys_subdict,
                                                  sample \o add_tag, 1),
                                        Str(verify.list[1]))
                      ELSE IF set_genome = Str(verify.list[1])
                      THEN ValidateFrom(input_dict, req_keys_subdict, add_tag, n + 1,
                                        AddSample(dict_validated, subdict, req_keys_subdict,
                                                  sample \o add_tag, 1),
                                        set_genome)
                      ELSE ValidateFrom(input_dict, req_keys_subdict, add_tag, n + 1,
                                        dict_validated, set_genome)

\* _validate_data_dict(input_dict, req_keys_subdict, add_tag), lines 260-284
ValidateDataDict(input_dict, req_keys_subdict, add_tag) ==
    ValidateFrom(input_dict, req_keys_subdict,
                 IF add_tag = None THEN <<>> ELSE Sep \o add_tag.val,
                 1, [req_key \in Range(req_keys_subdict) |-> EmptyDict], None)

---------------------------------------------------------------------------
(* Inputs of _validate_data_dict (SpecValidate) *)

hg38_1 == <<"h","g","3","8","_","1">>
tag_x == <<"x">>
tag_y == <<"y">>
tag_z == <<"z">>
suffix_s == <<"s">>
Gm == <<"G","m">>

\* the values a sample may be given: a dict with both types (assemblies equal
\* or not), a dict without GBC, a dict whose RCM is an open table or a file
\* without "__" in its name, and a bare path
Subdicts(t) ==
    {FlatDict(<<RCM, GBC>>, [ty \in {RCM, GBC} |->
                               PathOf(Gm, Stem(t, IF ty = RCM THEN a1 ELSE a2, ty))]) :
        a1 \in {hg19_1, hg38_1}, a2 \in {hg19_1, hg38_1}}
    \cup {FlatDict(<<RCM>>, [ty \in {RCM} |-> PathOf(Gm, Stem(t, hg19_1, RCM))]),
          FlatDict(<<RCM, GBC>>, [ty \in {RCM, GBC} |->
                                    IF ty = RCM THEN Table(PathOf(Gm, Stem(t, hg19_1, RCM)))
                                    ELSE PathOf(Gm, Stem(t, hg19_1, GBC))]),
          FlatDict(<<RCM, GBC>>, [ty \in {RCM, GBC} |->
                                    IF ty = RCM THEN PathOf(Gm, t)
                                    ELSE PathOf(Gm, Stem(t, hg19_1, GBC))]),
          PathOf(Gm, Stem(t, hg19_1, RCM))}

\* nested dicts of up to n samples, in every insertion order
NestedDicts(n) ==
    {FlatDict(keys, val) :
        <<keys, val>> \in
            UNION {{<<k, v>> : v \in {f \in [Range(k) -> UNION {Subdicts(t) : t \in Range(k)}] :
                                        \A t \in Range(k) : f[t] \in Subdicts(t)}}
                   : k \in {q \in SeqsUpTo({tag_x, tag_y, tag_z}, n) :
                               \A i, j \in DOMAIN q : q[i] = q[j] => i = j}}}

ValidateCalls(n) ==
    [input_dict : NestedDicts(n),
     req_keys_subdict : {<<RCM, GBC>>, <<RCM>>},
     add_tag : {None, Str(suffix_s)}]

InitValidate ==
    /\ val_in \in ValidateCalls(MaxSamples)
    /\ val_out = Idle
    /\ NoDiscoverCall /\ NoMatchCall /\ NoClasses /\ NoSplitCall
    /\ NoFacsCatalog /\ NoInferCall

CallValidate ==
    /\ val_out = Idle
    /\ val_out' = ValidateDataDict(val_in.input_dict, val_in.req_keys_subdict, val_in.add_tag)
    /\ UNCHANGED <<val_in, root, requires, discovered, bm_in, bm_out, dict_available_data,
                   inst, facs, last, cnv_in, cnv_out, dict_available_facs, adata, infer_out>>

NextValidate == CallValidate

SpecValidate == InitValidate /\ [][NextValidate]_vars

---------------------------------------------------------------------------
(* FACSplus.available_datasets and fetch_facs_expansion, dataloader.py:313-392 *)

\* dict_repair_facs_data["requires"], line 236
FacsRequires == <<RCM>>

\* an inner dict of a catalog (type -> path) as a dict with its key order
InnerDict(data_info, order) == FlatDict(order, data_info)

\* dict_accepted of lines 340-346 for one group: the tags kept, in order
AcceptedTags(subdict, ref_genome) ==
    SelectSeq(subdict.keys,
              LAMBDA data_key : \/ ref_genome = None
                                \/ SplitSecond(subdict.val[data_key][RCM].stem) = ref_genome)

\* dict_group with a group kept also when nothing of it was accepted
DictGroupKeepEmpty(cat, ref_genome) ==
    [key \in DOMAIN cat |->
        [keys |-> AcceptedTags(cat[key], ref_genome),
         val |-> [t \in Range(AcceptedTags(cat[key], ref_genome)) |-> cat[key].val[t]]]]

\* dict_group, lines 332-354
DictGroup(cat, ref_genome) ==
    [key \in {g \in DOMAIN cat : Len(AcceptedTags(cat[g], ref_genome)) # 0} |->
        [keys |-> AcceptedTags(cat[key], ref_genome),
         val |-> [t \in Range(AcceptedTags(cat[key], ref_genome)) |-> cat[key].val[t]]]]

\* FACSplus.available_datasets(ref_genome, return_true), lines 313-363; a
\* static method, recorded with target 0
AvailableDatasets(ref_genome, return_true) ==
    /\ last' = Call("available_datasets", 0,
                    [ref_genome |-> ref_genome, return_true |-> return_true], Ok,
                    IF return_true THEN DictGroup(dict_available_facs, ref_genome) ELSE None)
    /\ UNCHANGED <<dict_available_data, dict_available_facs, inst, facs>>
    /\ UnchangedOthers

\* a group's accepted datasets as the nested dict line 384 validates
GroupDict(subdict) ==
    FlatDict(subdict.keys, [t \in Range(subdict.keys) |-> InnerDict(subdict.val[t], FacsRequires)])

\* the loop of lines 383-386 over the groups in `order`, from number n on:
\* dict_facs, or the error _validate_data_dict raised
RECURSIVE MergeFacs(_, _, _, _)
MergeFacs(dict_valid_facs, order, n, dict_facs) ==
    IF n > Len(order) THEN [kind |-> "ok", dict_facs |-> dict_facs]
    ELSE LET key == order[n]
             v == ValidateDataDict(GroupDict(dict_valid_facs[key]), FacsRequires, Str(key))
             subdict_facs == v.dict_validated[RCM]
             RECURSIVE Merged(_, _)
             Merged(d, k) ==
                 IF k > Len(subdict_facs.keys) THEN d
                 ELSE Merged(DictUpdate(d, subdict_facs.keys[k],
                                        subdict_facs.val[subdict_facs.keys[k]]), k + 1)
         IN  IF v.kind # "ok" THEN v
             ELSE MergeFacs(dict_valid_facs, order, n + 1, Merged(dict_facs, 1))

\* fetch_facs_expansion with the FACS catalog taken unfiltered
FetchFacsUnfiltered(cat, dataloader_path_dict, dataloader_add_tag) ==
    LET tag == IF dataloader_add_tag = None THEN Str(mult_data) ELSE dataloader_add_tag
        v == ValidateDataDict(dataloader_path_dict, <<RCM, GBC>>, tag)
        dict_valid_facs == DictGroup(cat, None)
        merged == MergeFacs(dict_valid_facs, ListGroups(dict_valid_facs), 1, EmptyDict)
    IN  IF v.kind # "ok" THEN [out |-> v, obj |-> NoInstance]
        ELSE IF merged.kind # "ok" THEN [out |-> merged, obj |-> NoInstance]
        ELSE [out |-> Ok,
              obj |-> NewFACSplus("fetch_facs_expansion", v.dict_validated[RCM],
                                  v.dict_validated[GBC], merged.dict_facs, v.set_genome, tag)]

\* fetch_facs_expansion, lines 378-392: the error raised, or the instance
\* returned.  The groups are merged in the order of ListGroups.
FetchFacs(cat, dataloader_path_dict, dataloader_add_tag) ==
    LET tag == IF dataloader_add_tag = None THEN Str(mult_data) ELSE dataloader_add_tag
        v == ValidateDataDict(dataloader_path_dict, <<RCM, GBC>>, tag)
        dict_valid_facs == DictGroup(cat, v.set_genome)
        merged == MergeFacs(dict_valid_facs, ListGroups(dict_valid_facs), 1, EmptyDict)
    IN  IF v.kind # "ok" THEN [out |-> v, obj |-> NoInstance]
        ELSE IF merged.kind # "ok" THEN [out |-> merged, obj |-> NoInstance]
        ELSE [out |-> Ok,
              obj |-> NewFACSplus("fetch_facs_expansion", v.dict_validated[RCM],
                                  v.dict_validated[GBC], merged.dict_facs, v.set_genome, tag)]

\* FACSplus.fetch_facs_expansion(dataloader_path_dict, dataloader_add_tag);
\* the instance, if one is returned, is kept in facs
FetchFacsExpansion(dataloader_path_dict, dataloader_add_tag) ==
    /\ facs = NoInstance
    /\ \E r \in {FetchFacs(dict_available_facs, dataloader_path_dict, dataloader_add_tag)} :
          /\ facs' = r.obj
          /\ last' = Call("fetch_facs_expansion", 0,
                          [dataloader_path_dict |-> dataloader_path_dict,
                           dataloader_add_tag |-> dataloader_add_tag], r.out, NoValue)
    /\ UNCHANGED <<dict_available_data, dict_available_facs, inst>>
    /\ UnchangedOthers

---------------------------------------------------------------------------
(* The FACSplus class in use (SpecFacs) *)

mm_10 == <<"m","m","_","1","0">>
F1 == <<"F","1">>
F2 == <<"F","2">>
tag_p == <<"p">>
tag_q == <<"q">>
tag_r == <<"r">>

\* the facs_data directory: a group with datasets of two assemblies and a
\* group with one; or a directory whose only group holds no file
FacsRoots ==
    {[exists |-> TRUE,
      dirs |-> [g \in {F1, F2} |->
                  IF g = F1 THEN <<Stem(tag_p, hg_19, RCM), Stem(tag_q, hg_38, RCM)>>
                  ELSE <<Stem(tag_r, hg_38, RCM)>>]],
     [exists |-> TRUE, dirs |-> [g \in {F1} |-> <<>>]]}

\* the values FACSplus._dict_available_data may get at class definition, line 289
FacsCatalogs ==
    {o.catalog : o \in {d \in UNION {DiscoverOutcomes(rt, FacsRequires) : rt \in FacsRoots} :
                           d.kind = "ok"}}

\* a multiomics sample of tag t whose RCM and GBC files carry assemblies a1, a2
MultSample(t, a1, a2) ==
    FlatDict(<<GBC, RCM>>, [ty \in {RCM, GBC} |->
                              PathOf(wu_group, Stem(t, IF ty = RCM THEN a1 ELSE a2, ty))])

\* multiomics dictionaries as get_as_path returns them, and malformed ones
MultDicts ==
    {EmptyDict,
     FlatDict(<<tag_a>>, [t \in {tag_a} |-> MultSample(t, hg_19, hg_19)]),
     FlatDict(<<tag_a>>, [t \in {tag_a} |-> MultSample(t, hg_38, hg_38)]),
     FlatDict(<<tag_a>>, [t \in {tag_a} |-> MultSample(t, mm_10, mm_10)]),
     FlatDict(<<tag_a>>, [t \in {tag_a} |-> MultSample(t, hg_19, hg_38)]),
     FlatDict(<<tag_a, tag_b>>, [t \in {tag_a, tag_b} |->
                                   IF t = tag_a THEN MultSample(t, hg_19, hg_19)
                                   ELSE MultSample(t, hg_38, hg_38)]),
     FlatDict(<<tag_b, tag_a>>, [t \in {tag_a, tag_b} |-> MultSample(t, hg_38, hg_38)])}

RefGenomes == {None, Str(hg_19), Str(hg_38), Str(mm_10)}

InitFacs ==
    /\ dict_available_facs \in FacsCatalogs
    /\ facs = NoInstance
    /\ last = Idle
    /\ dict_available_data = Idle
    /\ inst = Idle
    /\ NotUsedByClasses

NextFacs ==
    \/ \E d \in MultDicts, t \in {None, Str(suffix_s)} : FetchFacsExpansion(d, t)
    \/ \E g \in RefGenomes, b \in BOOLEAN : AvailableDatasets(g, b)
    \/ GetFacsPaths
    \/ GetMultRcm
    \/ GetMultGbc
    \/ \E qm \in HybridQueries, qf \in HybridQueries, pct \in FacsPercents :
          ExtendFacsHybrid(Str(<<"h">>), qm, qf, pct)

SpecFacs == InitFacs /\ [][NextFacs]_vars

---------------------------------------------------------------------------
(* Claims about DataLoader (Spec) *)

\* what best_match makes of each group query over the groups of the data root
ResolvedGroup ==
    [q \in FetchQueries |->
        BestMatch(q, ListGroups(CHOOSE c \in DataLoaderCatalogs : TRUE), FALSE)]

Fetched == last.kind = "call" /\ last.op = "fetch_data"

\* the tags a subset_filter of type str or list asks for
Listed(sf) == IF sf.kind = "str" THEN {sf.val} ELSE Range(sf.val)

\* C3: fetch_data with the group resolved: a subset_filter that is neither
\* str, list nor None raises the invalid-subset-type error; None selects every
\* tag of the group; a str or list selects exactly the listed tags that exist
\* in the group; an empty selection raises the no-matching-subset error and no
\* instance is returned; otherwise the instance holds exactly that selection
\* and the resolved group name.
C3_FetchSubset ==
    (Fetched /\ ResolvedGroup[last.args.group_data].kind = "str") =>
        LET g == ResolvedGroup[last.args.group_data].val
            sf == last.args.subset_filter
            tags == Range(dict_available_data[g].keys)
            obj == inst[last.target]
            wanted == IF sf = None THEN tags ELSE Listed(sf) \cap tags
        IN  IF sf.kind \notin {"None", "str", "list"}
            THEN /\ last.out = ValueError("Attribute subset_filter must be the following datatypes: (str, list)")
                 /\ obj = NoInstance
            ELSE IF wanted = {}
            THEN /\ last.out = ValueError("There are no matches for given subset_filter")
                 /\ obj = NoInstance
            ELSE /\ last.out = Ok
                 /\ obj.kind = "DataLoader"
                 /\ obj.attrs.selected_group = Str(g)
                 /\ obj.attrs.fetched_group_dict_data.kind = "dict"
                 /\ obj.attrs.fetched_group_dict_data.group = g
                 /\ Range(obj.attrs.fetched_group_dict_data.keys) = wanted
                 /\ NoRepeat(obj.attrs.fetched_group_dict_data.keys)

C3_Witness ==
    /\ Fetched
    /\ last.args.group_data = wu
    /\ last.args.subset_filter = [kind |-> "list", val |-> <<tag_a, tag_c>>]
    /\ last.out = Ok
    /\ inst[last.target].attrs.fetched_group_dict_data.keys = <<tag_a>>
    /\ inst[last.target].attrs.selected_group = Str(wu_group)

\* C5: the class-level catalog is read-only: after any sequence of fetch_data,
\* get_as_path and get_as_dataframe calls it is the mapping discovery stored,
\* every group -> tag -> type still a file path.
C5_CatalogReadOnly == dict_available_data \in DataLoaderCatalogs

\* every value the instance in slot j selects is a file path
HoldsPaths(j) ==
    LET c == Content(dict_available_data, inst[j].attrs.fetched_group_dict_data)
    IN  \A t \in DOMAIN c : \A ty \in DOMAIN c[t] : c[t][ty].kind = "path"

FromFetch(j) == inst[j] # NoInstance /\ inst[j].via = "fetch_data"

\* C6: get_as_dataframe on one instance made by fetch_data leaves the
\* selection of every other such instance holding file paths.
C6_InstanceIsolation ==
    [][\A i, j \in 1..MaxInst :
          (/\ i # j /\ FromFetch(i) /\ FromFetch(j) /\ HoldsPaths(j)
           /\ last'.kind = "call" /\ last'.op = "get_as_dataframe" /\ last'.target = i)
          => HoldsPaths(j)']_vars

\* C7: get_as_path on an initialized instance returns file paths, not tables,
\* whatever was called on the instance before.
C7_GetAsPathReturnsPaths ==
    (last.kind = "call" /\ last.op = "get_as_path" /\ last.out = Ok) =>
        \A t \in DOMAIN last.ret : \A ty \in DOMAIN last.ret[t] : last.ret[t][ty].kind = "path"

---------------------------------------------------------------------------
(* Claims about the initialization guard (SpecGuard) *)

Accessors ==
    {"get_as_dataframe", "get_as_path", "get_group_info", "get_data_summary",
     "get_facs_paths", "get_mult_rcm", "get_mult_gbc", "dataloader_extend_facs_hybrid"}

Obj(target) == IF target = 0 THEN facs ELSE inst[target]

HasUnset(obj) == \E k \in DOMAIN obj.attrs : obj.attrs[k] = None

ClassError(obj) ==
    IF obj.kind = "DataLoader"
    THEN ValueError("Use Dataloader.fetch_data(group_data: str) first.")
    ELSE ValueError("Use FACSplus.fetch_matching_data(group_data: str) first.")

\* C4: on a DataLoader or FACSplus instance with at least one attribute unset,
\* every post-initialization accessor raises the class's uninitialized-use
\* error, returns no value and leaves the instance and the catalog unchanged.
C4_UninitializedGuard ==
    [][(/\ last'.kind = "call"
        /\ last'.op \in Accessors
        /\ HasUnset(Obj(last'.target)))
       => /\ last'.out = ClassError(Obj(last'.target))
          /\ last'.ret = NoValue
          /\ UNCHANGED <<inst, facs, dict_available_data>>]_vars

C4_Witness ==
    /\ last.kind = "call"
    /\ last.op = "get_data_summary"
    /\ inst[last.target].attrs.fetched_group_dict_data # None
    /\ inst[last.target].attrs.selected_group = None
    /\ last.out = ValueError("Use Dataloader.fetch_data(group_data: str) first.")

---------------------------------------------------------------------------
(* cnv_result_split_by_cell, infercnv_eval.py:19-47 *)

\* pathlib: PurePath.stem, the name without its last suffix; a leading or a
\* trailing dot starts no suffix
PathStem(name) ==
    LET dots == {k \in DOMAIN name : name[k] = "."}
    IN  IF dots = {} THEN name
        ELSE LET d == CHOOSE k \in dots : \A l \in dots : l <= k
             IN  IF 1 < d /\ d < Len(name) THEN SubSeq(name, 1, d - 1) ELSE name

\* a set of row numbers as an ascending list
RECURSIVE Ascending(_)
Ascending(S) ==
    IF S = {} THEN <<>>
    ELSE LET m == CHOOSE k \in S : \A l \in S : k <= l
         IN  <<m>> \o Ascending(S \ {m})

DecimalDigits == <<"0", "1", "2", "3", "4", "5", "6", "7", "8", "9">>

\* f"chr{x}", line 37, for a one-digit chromosome number
ChrLabel(x) == <<"c", "h", "r", DecimalDigits[x + 1]>>

\* subset=["CHR", cell_id], lines 42-43
DupKey(rows, c, k) == <<rows[k].CHR, rows[k].vals[c]>>

\* drop_duplicates(keep="first"), line 42: the rows kept
KeepFirst(rows, c) ==
    Ascending({k \in DOMAIN rows : \A j \in 1..(k - 1) : DupKey(rows, c, j) # DupKey(rows, c, k)})

\* drop_duplicates(keep="last"), line 43: the rows kept
KeepLast(rows, c) ==
    Ascending({k \in DOMAIN rows : \A j \in (k + 1)..Len(rows) : DupKey(rows, c, j) # DupKey(rows, c, k)})

\* lines 41-45 for one cell column: END is assigned by position from the
\* keep-last frame, and the index restarts at 0
CellFrame(rows, c) ==
    LET slice_per_cell_start == KeepFirst(rows, c)
        slice_per_cell_end == KeepLast(rows, c)
    IN  [n \in DOMAIN slice_per_cell_start |->
            [index |-> n - 1,
             CHR |-> ChrLabel(rows[slice_per_cell_start[n]].CHR),
             START |-> rows[slice_per_cell_start[n]].START,
             END |-> rows[slice_per_cell_end[n]].END,
             value |-> rows[slice_per_cell_start[n]].vals[c]]]

FileNotFoundError == [kind |-> "FileNotFoundError", why |-> "No such file or directory"]
IsADirectoryError == [kind |-> "IsADirectoryError", why |-> "Is a directory"]

dot_csv == <<".", "c", "s", "v">>

\* the whole call: the path check of line 34, read_csv, and the loop
SplitOutcome(call) ==
    IF call.path.fs # "file" /\ PathStem(call.path.name) # dot_csv
    THEN ValueError("Provided path is not a csv-file!")
    ELSE IF call.path.fs = "missing" THEN FileNotFoundError
    ELSE IF call.path.fs = "dir" THEN IsADirectoryError
    ELSE [kind |-> "ok",
          ret |-> [c \in DOMAIN call.content.cells |-> CellFrame(call.content.rows, c)]]

---------------------------------------------------------------------------
(* Inputs of cnv_result_split_by_cell (SpecSplit) *)

cnv_csv == <<"c", "n", "v", ".", "c", "s", "v">>
cnv_txt == <<"c", "n", "v", ".", "t", "x", "t">>
results == <<"r", "e", "s", "u", "l", "t", "s">>

CellIds == <<"c1", "c2">>
CopyNumbers == {2, 3}
Chromosomes == {1, 2}

\* position of row k among the bins of its chromosome
BinOf(chrs, k) == Cardinality({j \in 1..k : chrs[j] = chrs[k]})

\* tables of n bins, grouped by chromosome and ordered by position
Tables(n) ==
    {[cells |-> SubSeq(CellIds, 1, nc),
      rows |-> [k \in 1..n |-> [CHR |-> chrs[k],
                                START |-> BinOf(chrs, k) - 1,
                                END |-> BinOf(chrs, k),
                                vals |-> [c \in 1..nc |-> v[c][k]]]]] :
        <<nc, chrs, v>> \in
            UNION {{<<m, ch, w>> : ch \in {x \in [1..n -> Chromosomes] :
                                             \A k \in 1..(n - 1) : x[k] <= x[k + 1]},
                                   w \in [1..m -> [1..n -> CopyNumbers]]}
                   : m \in DOMAIN CellIds}}

\* files holding a table of up to n bins, and paths that are no file
SplitInputs(n) ==
    {[path |-> [name |-> nm, fs |-> "file"], content |-> t] :
        nm \in {cnv_csv, cnv_txt}, t \in UNION {Tables(r) : r \in 0..n}}
    \cup {[path |-> [name |-> nm, fs |-> f], content |-> None] :
            nm \in {cnv_csv, dot_csv, results}, f \in {"missing", "dir"}}

InitSplit ==
    /\ cnv_in \in SplitInputs(MaxRows)
    /\ cnv_out = Idle
    /\ NoDiscoverCall
    /\ NoMatchCall
    /\ NoClasses
    /\ NoHelperCall

SplitByCell ==
    /\ cnv_out = Idle
    /\ cnv_out' = SplitOutcome(cnv_in)
    /\ UNCHANGED <<cnv_in, root, requires, discovered, bm_in, bm_out,
                   dict_available_data, inst, facs, last, dict_available_facs,
                   val_in, val_out, adata, infer_out>>

NextSplit == SplitByCell

SpecSplit == InitSplit /\ [][NextSplit]_vars

---------------------------------------------------------------------------
(* Claims about cnv_result_split_by_cell (SpecSplit) *)

\* the rows that start, and that end, a maximal run of consecutive rows with
\* identical (CHR, value)
RunStarts(rows, c) ==
    Ascending({k \in DOMAIN rows : k = 1 \/ DupKey(rows, c, k - 1) # DupKey(rows, c, k)})
RunEnds(rows, c) ==
    Ascending({k \in DOMAIN rows : k = Len(rows) \/ DupKey(rows, c, k + 1) # DupKey(rows, c, k)})

RunReduce(rows, c) ==
    [n \in DOMAIN RunStarts(rows, c) |->
        [index |-> n - 1,
         CHR |-> ChrLabel(rows[RunStarts(rows, c)[n]].CHR),
         START |-> rows[RunStarts(rows, c)[n]].START,
         END |-> rows[RunEnds(rows, c)[n]].END,
         value |-> rows[RunStarts(rows, c)[n]].vals[c]]]

\* C10: for every input table and every cell column the returned table has
\* one row per maximal run of consecutive rows with identical (CHR, value),
\* in original order, indexed from 0, with the START of the run's first bin
\* and the END of the run's last bin.
C10_RunReduction ==
    cnv_out.kind = "ok" =>
        \A c \in DOMAIN cnv_in.content.cells :
            cnv_out.ret[c] = RunReduce(cnv_in.content.rows, c)

\* the extension of a file name: from its last dot on, when that dot is
\* neither the first nor the last character
Extension(name) ==
    LET stem == PathStem(name)
    IN  SubSeq(name, Len(stem) + 1, Len(name))

IsCsvFile(path) == path.fs = "file" /\ Extension(path.name) = dot_csv

\* C11: for every path that is not an existing file with a ".csv" extension
\* (a missing path, a directory, an existing file with another extension) the
\* call raises the invalid-input error, and nothing is read.
C11_InvalidInputRejected ==
    (cnv_out # Idle /\ ~IsCsvFile(cnv_in.path)) =>
        cnv_out = ValueError("Provided path is not a csv-file!")

---------------------------------------------------------------------------
(* Claims about _validate_data_dict (SpecValidate) *)

\* a nested input: every sample is a dict that has a file path with an
\* assembly segment for every required type
Nested(call) ==
    \A t \in Range(call.input_dict.keys) :
        LET subdict == call.input_dict.val[t]
        IN  /\ subdict.kind = "dict"
            /\ \A ty \in Range(call.req_keys_subdict) :
                  /\ ty \in Range(subdict.keys)
                  /\ subdict.val[ty].kind = "path"
                  /\ SplitSecond(subdict.val[ty].stem) # None

\* the assembly tokens of the required files of sample t
Tokens(call, t) ==
    {SplitSecond(call.input_dict.val[t].val[ty].stem) : ty \in Range(call.req_keys_subdict)}

Disagrees(call, t) == Cardinality(Tokens(call, t)) > 1

Validated == val_out # Idle /\ Nested(val_in)

\* C16: for every nested input and list of required types, the helper raises
\* the inconsistent-assembly error (and returns nothing) exactly when some
\* tag's required-type files disagree on the assembly token, whatever the
\* position of that tag.
C16_AssemblyConsistency ==
    Validated =>
        (val_out = Inconsistent <=>
            \E t \in Range(val_in.input_dict.keys) : Disagrees(val_in, t))

C16_Witness ==
    /\ Validated
    /\ val_in.input_dict.keys = <<tag_x, tag_y>>
    /\ ~Disagrees(val_in, tag_x)
    /\ Disagrees(val_in, tag_y)
    /\ Tokens(val_in, tag_x) = {Str(hg19_1)}
    /\ val_in.input_dict.val[tag_y].val[RCM].stem = Stem(tag_y, hg38_1, RCM)
    /\ val_out = Inconsistent

\* the output key of sample t
OutKey(call, t) == IF call.add_tag = None THEN t ELSE t \o Sep \o call.add_tag.val

\* the samples whose assembly is that of the first sample, in input order
Pinned(call) ==
    SelectSeq(call.input_dict.keys,
              LAMBDA t : Tokens(call, t) = Tokens(call, call.input_dict.keys[1]))

\* C17: when no tag's files disagree the helper returns; the returned assembly
\* is the token of the first tag; every required type's mapping holds, under
\* the key <tag> or <tag>__<suffix>, exactly the tags whose token is that of
\* the first tag, with their paths; tags of another assembly are dropped
\* without an error.
C17_FirstTagPinning ==
    (Validated /\ \A t \in Range(val_in.input_dict.keys) : ~Disagrees(val_in, t)) =>
        /\ val_out.kind = "ok"
        /\ val_in.input_dict.keys # <<>> =>
              {val_out.set_genome} = Tokens(val_in, val_in.input_dict.keys[1])
        /\ \A ty \in Range(val_in.req_keys_subdict) :
              /\ val_out.dict_validated[ty].keys =
                    [n \in DOMAIN Pinned(val_in) |-> OutKey(val_in, Pinned(val_in)[n])]
              /\ \A n \in DOMAIN Pinned(val_in) :
                    val_out.dict_validated[ty].val[OutKey(val_in, Pinned(val_in)[n])]
                        = val_in.input_dict.val[Pinned(val_in)[n]].val[ty]

C17_Witness ==
    /\ Validated
    /\ val_in.input_dict.keys = <<tag_x, tag_y>>
    /\ val_in.req_keys_subdict = <<RCM, GBC>>
    /\ val_in.add_tag = Str(suffix_s)
    /\ Tokens(val_in, tag_x) = {Str(hg19_1)}
    /\ Tokens(val_in, tag_y) = {Str(hg38_1)}
    /\ val_out.kind = "ok"
    /\ val_out.set_genome = Str(hg19_1)
    /\ val_out.dict_validated[GBC].keys = <<tag_x \o Sep \o suffix_s>>

---------------------------------------------------------------------------
(* Claims about the FACSplus class (SpecFacs) *)

FacsCall(op) == last.kind = "call" /\ last.op = op

\* the (group, tag) pairs of the FACS catalog
FacsEntries ==
    UNION {{<<g, t>> : t \in Range(dict_available_facs[g].keys)} : g \in DOMAIN dict_available_facs}

\* the assembly token in the name of a FACS dataset's RCM file
FacsToken(g, t) == SplitSecond(dict_available_facs[g].val[t][RCM].stem)

\* C12: fetch_facs_expansion returns no instance (it fails with a "no assembly
\* match" error) when no FACS group has a dataset whose assembly equals the
\* assembly resolved from the multiomics input; so an instance it returned has
\* a FACS dataset of its assembly.
C12_NoAssemblyMatchFails ==
    (/\ facs # NoInstance
     /\ facs.via = "fetch_facs_expansion"
     /\ facs.attrs.assembly_genome # None) =>
        \E e \in FacsEntries : FacsToken(e[1], e[2]) = facs.attrs.assembly_genome

\* C13: on an initialized FACSplus, dataloader_extend_facs_hybrid called with
\* is_facs_percent 0 or None returns without raising.
C13_ZeroPercentAccepted ==
    (/\ FacsCall("dataloader_extend_facs_hybrid")
     /\ ~HasUnset(facs)
     /\ last.args.is_facs_percent \in {None, [kind |-> "number", val |-> 0]}) =>
        last.out = Ok

\* C14: available_datasets(ref_genome, return_true) leaves the FACS catalog as
\* it is; with return_true false it returns nothing; otherwise the mapping
\* returned holds (group, tag), with the catalog's entry, exactly when the
\* catalog holds it and ref_genome is absent or equals the assembly token of
\* the dataset's RCM file, and a group with no such tag is not a key.
C14_AvailableDatasets ==
    [][(last'.kind = "call" /\ last'.op = "available_datasets") =>
          /\ dict_available_facs' = dict_available_facs
          /\ last'.out = Ok
          /\ ~last'.args.return_true => last'.ret = None
          /\ last'.args.return_true =>
                /\ \A g \in DOMAIN last'.ret : last'.ret[g].keys # <<>>
                /\ \A e \in FacsEntries :
                      (/\ e[1] \in DOMAIN last'.ret
                       /\ e[2] \in Range(last'.ret[e[1]].keys))
                      <=> (\/ last'.args.ref_genome = None
                           \/ FacsToken(e[1], e[2]) = last'.args.ref_genome)
                /\ \A g \in DOMAIN last'.ret :
                      /\ g \in DOMAIN dict_available_facs
                      /\ \A t \in Range(last'.ret[g].keys) :
                            /\ <<g, t>> \in FacsEntries
                            /\ last'.ret[g].val[t] = dict_available_facs[g].val[t]]_vars

C14_Witness ==
    /\ FacsCall("available_datasets")
    /\ last.args.ref_genome = Str(hg_19)
    /\ last.args.return_true
    /\ DOMAIN dict_available_facs = {F1, F2}
    /\ DOMAIN last.ret = {F1}
    /\ last.ret[F1].keys = <<tag_p>>

\* C18: every instance fetch_facs_expansion returns, the one made from an
\* empty multiomics dictionary included, has no attribute unset.
C18_FactoryInitialized ==
    (facs # NoInstance /\ facs.via = "fetch_facs_expansion") => ~HasUnset(facs)

EndsWith(s, suffix) ==
    /\ Len(s) >= Len(suffix)
    /\ SubSeq(s, Len(s) - Len(suffix) + 1, Len(s)) = suffix

\* the state part of C19
FactoryInstanceShape ==
    (/\ facs # NoInstance
     /\ facs.via = "fetch_facs_expansion"
     /\ facs.attrs.mult_rcm.keys # <<>>) =>
        /\ Range(facs.attrs.mult_rcm.keys) = Range(facs.attrs.mult_gbc.keys)
        /\ FacsCall("fetch_facs_expansion") =>
              facs.attrs.tag = IF last.args.dataloader_add_tag = None THEN Str(mult_data)
                               ELSE last.args.dataloader_add_tag
        /\ \A k \in Range(facs.attrs.mult_rcm.keys) : EndsWith(k, Sep \o facs.attrs.tag.val)
        /\ \A k \in Range(facs.attrs.facs_rcm.keys) :
              \E e \in FacsEntries :
                 /\ k = e[2] \o Sep \o e[1]
                 /\ facs.attrs.facs_rcm.val[k] = dict_available_facs[e[1]].val[e[2]][RCM]
        /\ \A a \in {"mult_rcm", "mult_gbc", "facs_rcm"} :
              \A k \in Range(facs.attrs[a].keys) :
                 SplitSecond(facs.attrs[a].val[k].stem) = facs.attrs.assembly_genome

\* C19: an instance fetch_facs_expansion returned for a non-empty multiomics
\* dictionary has the same keys in mult_rcm and mult_gbc, each ending in
\* __<tag> (__mult_data when no tag was given); every key of facs_rcm is
\* <dataset tag>__<FACS group> of a catalog entry and maps to its RCM file;
\* the assembly token of every path equals assembly_genome; and
\* get_facs_paths, get_mult_rcm and get_mult_gbc return these mappings and
\* leave them as they are.
C19_FactoryInstance ==
    [][/\ FactoryInstanceShape'
       /\ (facs # NoInstance /\ facs.attrs.mult_rcm.keys # <<>>) =>
             /\ facs' = facs
             /\ (last'.op = "get_facs_paths" /\ last' # last) =>
                   (last'.out = Ok /\ last'.ret = facs.attrs.facs_rcm)
             /\ (last'.op = "get_mult_rcm" /\ last' # last) =>
                   (last'.out = Ok /\ last'.ret = facs.attrs.mult_rcm)
             /\ (last'.op = "get_mult_gbc" /\ last' # last) =>
                   (last'.out = Ok /\ last'.ret = facs.attrs.mult_gbc)]_vars

C19_Witness ==
    /\ FacsCall("get_facs_paths")
    /\ facs.via = "fetch_facs_expansion"
    /\ facs.attrs.mult_rcm.keys = <<tag_a \o Sep \o suffix_s>>
    /\ facs.attrs.assembly_genome = Str(hg_38)
    /\ Range(facs.attrs.facs_rcm.keys) = {tag_q \o Sep \o F1, tag_r \o Sep \o F2}
    /\ last.ret = facs.attrs.facs_rcm

---------------------------------------------------------------------------
(* run_py_infercnv, c_infercnvpy.py:42-77 (SpecInfer) *)

MaxBins == 8
MaxChrs == 3

RECURSIVE ToDecimal(_)
\* str(pos) of a natural number, as the f-string of line 76 formats it
ToDecimal(pos) ==
    IF pos < 10 THEN <<DecimalDigits[pos + 1]>>
    ELSE ToDecimal(pos \div 10) \o <<DecimalDigits[(pos % 10) + 1]>>

rel_pos == <<"_", "_", "r", "e", "l", "_", "p", "o", "s", "_">>

\* f"{chr_tag}__rel_pos_{pos}", line 76
PosLabel(chr_tag, pos) == chr_tag \o rel_pos \o ToDecimal(pos)

\* chr_start_pos_list_pop_first without the total appended
EndPositionsNoTotal(chr_start_pos_list, n_cols) == Tail(chr_start_pos_list)

\* chr_start_pos_list_pop_first, lines 69-70
EndPositions(chr_start_pos_list, n_cols) == Tail(chr_start_pos_list) \o <<n_cols>>

Min3(a, b, c) == CHOOSE x \in {a, b, c} : \A y \in {a, b, c} : x <= y

\* the labels of one chromosome: range(e - s), lines 71 and 75-76
RECURSIVE RangeLabels(_, _, _)
RangeLabels(chr_tag, length, pos) ==
    IF pos >= length THEN <<>>
    ELSE <<PosLabel(chr_tag, pos)>> \o RangeLabels(chr_tag, length, pos + 1)

\* cnv_col, lines 71-76: zip stops at its shortest argument
RECURSIVE CnvCol(_, _, _, _)
CnvCol(chr_tags, starts, ends, i) ==
    IF i > Min3(Len(chr_tags), Len(starts), Len(ends)) THEN <<>>
    ELSE RangeLabels(chr_tags[i], ends[i] - starts[i], 0)
            \o CnvCol(chr_tags, starts, ends, i + 1)

ShapeError == ValueError("Shape of passed values does not match the indices")

\* run_py_infercnv(adata, kwargs) for an adata as cnv.tl.infercnv leaves it:
\* the error raised or the table returned.  With kwargs left at its default,
\* the type dict, the call of line 59 raises.
RunOutcome(a, kwargs) ==
    LET chr_start_pos_list == [i \in DOMAIN a.chr_pos.keys |-> a.chr_pos.val[a.chr_pos.keys[i]]]
        cnv_col == CnvCol(a.chr_pos.keys, chr_start_pos_list,
                          EndPositions(chr_start_pos_list, a.n_cols), 1)
    IN  IF kwargs = "default"
        THEN TypeError("argument after ** must be a mapping, not type")
        ELSE IF Len(cnv_col) # a.n_cols \/ Len(a.obs_index) # Len(a.X_cnv)
        THEN ShapeError
        ELSE [kind |-> "DataFrame",
              index |-> cnv_col,
              columns |-> a.obs_index,
              data |-> [r \in 1..Len(cnv_col) |->
                          [c \in 1..Len(a.obs_index) |-> a.X_cnv[c][r]]]]

cell_1 == <<"c", "1">>
cell_2 == <<"c", "2">>

\* chr_pos as the library records it: the chromosomes in order (ascending or
\* descending labels), the first starting at 0, offsets not decreasing and
\* within the n columns
ChrPositions(n, k) ==
    UNION {
      {FlatDict(keys, [t \in Range(keys) |-> offs[CHOOSE i \in 1..m : keys[i] = t]]) :
          keys \in {[i \in 1..m |-> ChrLabel(i)], [i \in 1..m |-> ChrLabel(m + 1 - i)]},
          offs \in {o \in [1..m -> 0..n] :
                      /\ o[1] = 0
                      /\ \A i \in 1..(m - 1) : o[i] <= o[i + 1]}} :
      m \in 1..k}

\* adata after cnv.tl.infercnv: cells x bins matrix X_cnv (entry (c, r) named
\* by its position), obs index and chr_pos
InferInputs(n, k) ==
    UNION {
      {[kind |-> "AnnData", obs_index |-> cells, n_cols |-> cols, chr_pos |-> pos,
        X_cnv |-> [c \in 1..Len(cells) |-> [r \in 1..cols |-> (c - 1) * cols + r]]] :
          cells \in {<<cell_1>>, <<cell_1, cell_2>>},
          pos \in ChrPositions(cols, k)} :
      cols \in 1..n}

InitInfer ==
    /\ adata \in InferInputs(MaxBins, MaxChrs)
    /\ infer_out = Idle
    /\ NoDiscoverCall
    /\ NoMatchCall
    /\ NoClasses
    /\ NoSplitCall
    /\ NoFacsCatalog
    /\ NoValidateCall

RunPyInfercnv(kwargs) ==
    /\ infer_out = Idle
    /\ infer_out' = [kwargs |-> kwargs, out |-> RunOutcome(adata, kwargs)]
    /\ UNCHANGED <<root, requires, discovered, bm_in, bm_out, dict_available_data, inst,
                   facs, last, cnv_in, cnv_out, dict_available_facs, val_in, val_out, adata>>

NextInfer == \E kwargs \in {"default", "given"} : RunPyInfercnv(kwargs)

SpecInfer == InitInfer /\ [][NextInfer]_vars

\* the chromosome whose bins hold column j (counted from 0)
ChrOf(a, j) ==
    CHOOSE i \in DOMAIN a.chr_pos.keys :
        /\ a.chr_pos.val[a.chr_pos.keys[i]] <= j
        /\ j < (IF i = Len(a.chr_pos.keys) THEN a.n_cols
                ELSE a.chr_pos.val[a.chr_pos.keys[i + 1]])

\* C15: run_py_infercnv, called with keyword arguments, returns a table whose
\* row index holds, chromosome by chromosome, <chromosome>__rel_pos_<k> for
\* k = 0 .. (next chromosome's start - this chromosome's start - 1), the last
\* chromosome ending at the bin count N; the labels are N in number and all
\* distinct, and the columns are the cell identifiers.
C15_ColumnLabels ==
    (infer_out # Idle /\ infer_out.kwargs = "given") =>
        /\ infer_out.out.kind = "DataFrame"
        /\ Len(infer_out.out.index) = adata.n_cols
        /\ Cardinality(Range(infer_out.out.index)) = adata.n_cols
        /\ infer_out.out.columns = adata.obs_index
        /\ \A j \in 1..adata.n_cols :
              \E i \in {ChrOf(adata, j - 1)} :
                 infer_out.out.index[j] =
                    adata.chr_pos.keys[i] \o rel_pos
                       \o ToDecimal(j - 1 - adata.chr_pos.val[adata.chr_pos.keys[i]])

C15_Witness ==
    /\ infer_out # Idle
    /\ infer_out.kwargs = "given"
    /\ adata.chr_pos.keys = <<ChrLabel(1), ChrLabel(2)>>
    /\ adata.chr_pos.val[ChrLabel(1)] = 0
    /\ adata.chr_pos.val[ChrLabel(2)] = 5
    /\ adata.n_cols = 8
    /\ infer_out.out.kind = "DataFrame"
    /\ infer_out.out.index =
          <<PosLabel(ChrLabel(1), 0), PosLabel(ChrLabel(1), 1), PosLabel(ChrLabel(1), 2),
            PosLabel(ChrLabel(1), 3), PosLabel(ChrLabel(1), 4), PosLabel(ChrLabel(2), 0),
            PosLabel(ChrLabel(2), 1), PosLabel(ChrLabel(2), 2)>>
    /\ infer_out.out.index[6] = <<"c","h","r","2","_","_","r","e","l","_","p","o","s","_","0">>

=============================================================================
